---- MODULE Spec2Model ----
(***************************************************************************)
(* Model of the page watcher in src/run.py: the change-detection and       *)
(* diff-summarisation pipeline (sha, generate_diff, contains_keywords) and *)
(* the run orchestrator (main) with its external collaborators (fetch,     *)
(* snapshot files, Telegram notifier).                                     *)
(*                                                                         *)
(* A Python str is modelled as a sequence of one-character strings; the    *)
(* non-ASCII characters are written by their code point ("U+20AC" is the   *)
(* euro sign, "U+1F4DD" the memo emoji, "U+1F3AB" the ticket emoji).       *)
(***************************************************************************)
EXTENDS Integers, Sequences, FiniteSets, TLC

----------------------------------------------------------------------------
(* Bounds of the model *)

\* most lines (chunks) a fetched page has in the orchestrator's runs
MaxLen == 2

\* most runs of main() in a behaviour
MaxRuns == 2

\* most lines of the old and of the new text handed to generate_diff alone
MaxDiffLen == 4

\* largest max_lines handed to generate_diff alone
MaxMaxLines == 3

----------------------------------------------------------------------------
(* Python str operations used by the program *)

NL == "\n"

Max(x, y) == IF x >= y THEN x ELSE y
Min(x, y) == IF x <= y THEN x ELSE y

\* sep.join(lines)
RECURSIVE Join(_, _)
Join(lines, sep) ==
    IF lines = <<>> THEN <<>>
    ELSE IF Len(lines) = 1 THEN lines[1]
    ELSE lines[1] \o sep \o Join(Tail(lines), sep)

\* text.split('\n'): always at least one line; '' gives ['']
RECURSIVE SplitFrom(_, _)
SplitFrom(text, cur) ==
    IF text = <<>> THEN <<cur>>
    ELSE IF Head(text) = NL THEN <<cur>> \o SplitFrom(Tail(text), <<>>)
    ELSE SplitFrom(Tail(text), Append(cur, Head(text)))

Split(text) == SplitFrom(text, <<>>)

\* a slice that forgets its bound
TakeAll(seq, n) == seq

\* seq[len(seq)-n:], a slice taken from the wrong end
TakeLast(seq, n) == SubSeq(seq, Len(seq) - Min(n, Len(seq)) + 1, Len(seq))

\* seq[:n]
Take(seq, n) == SubSeq(seq, 1, Min(n, Len(seq)))

\* seq[n:]
Drop(seq, n) == SubSeq(seq, n + 1, Len(seq))

UpperToLower ==
    [A |-> "a", B |-> "b", C |-> "c", D |-> "d", E |-> "e", F |-> "f",
     G |-> "g", H |-> "h", I |-> "i", J |-> "j", K |-> "k", L |-> "l",
     M |-> "m", N |-> "n", O |-> "o", P |-> "p", Q |-> "q", R |-> "r",
     S |-> "s", T |-> "t", U |-> "u", V |-> "v", W |-> "w", X |-> "x",
     Y |-> "y", Z |-> "z"]

\* str.lower()
Lower(s) ==
    [i \in 1..Len(s) |->
        IF s[i] \in DOMAIN UpperToLower THEN UpperToLower[s[i]] ELSE s[i]]

\* k in s
IsSubstring(k, s) ==
    \E i \in 1..(Len(s) - Len(k) + 1) : SubSeq(s, i, i + Len(k) - 1) = k

Whitespace == {" ", "\t", NL, "\r"}

\* str.strip()
RECURSIVE LStrip(_)
LStrip(s) ==
    IF s # <<>> /\ Head(s) \in Whitespace THEN LStrip(Tail(s)) ELSE s

RECURSIVE RStrip(_)
RStrip(s) ==
    IF s # <<>> /\ s[Len(s)] \in Whitespace
    THEN RStrip(SubSeq(s, 1, Len(s) - 1)) ELSE s

Strip(s) == RStrip(LStrip(s))

\* s.startswith(c)
StartsWith(s, c) == s # <<>> /\ s[1] = c

Digit == <<"0", "1", "2", "3", "4", "5", "6", "7", "8", "9">>

\* '{}'.format(n) for n >= 0
RECURSIVE IntToStr(_)
IntToStr(n) ==
    IF n < 10 THEN <<Digit[n + 1]>>
    ELSE Append(IntToStr(n \div 10), Digit[(n % 10) + 1])

----------------------------------------------------------------------------
(* Configuration *)

\* a list in which two targets are given the same cache file
PAGES_shared_filename ==
    << [page_name |-> "Informazioni",
        url |-> "https://www.labiennale.org/it/cinema/2025/informazioni",
        filename |-> "informazioni.txt"],
       [page_name |-> "labiennale.org/it",
        url |-> "https://www.labiennale.org/it",
        filename |-> "informazioni.txt"],
       [page_name |-> "labiennale.org/it/cinema/2025",
        url |-> "https://www.labiennale.org/it/cinema/2025",
        filename |-> "labienalle_cinema.txt"] >>

\* the targets monitored
PAGES ==
    << [page_name |-> "Informazioni",
        url |-> "https://www.labiennale.org/it/cinema/2025/informazioni",
        filename |-> "informazioni.txt"],
       [page_name |-> "labiennale.org/it",
        url |-> "https://www.labiennale.org/it",
        filename |-> "labienalle_it.txt"],
       [page_name |-> "labiennale.org/it/cinema/2025",
        url |-> "https://www.labiennale.org/it/cinema/2025",
        filename |-> "labienalle_cinema.txt"] >>

TICKET_KEYWORDS ==
    << <<"b","i","g","l","i","e","t","t","i">>,
       <<"b","i","g","l","i","e","t","t","o">>,
       <<"p","r","e","z","z","o">>,
       <<"p","r","e","z","z","i">>,
       <<"c","o","s","t","o">>,
       <<"v","e","n","d","i","t","a">>,
       <<"a","c","q","u","i","s","t","o">>,
       <<"p","r","e","n","o","t","a","z","i","o","n","e">>,
       <<"p","r","e","n","o","t","a","z","i","o","n","i">>,
       <<"d","i","s","p","o","n","i","b","i","l","i">>,
       <<"d","i","s","p","o","n","i","b","i","l","e">>,
       <<"a","p","e","r","t","o">>,
       <<"a","p","e","r","t","u","r","a">>,
       <<"c","h","i","u","s","u","r","a">>,
       <<"o","r","a","r","i">>,
       <<"o","r","a","r","i","o">>,
       <<"e","u","r","o">>,
       <<"U+20AC">>,
       <<"g","r","a","t","u","i","t","o">>,
       <<"g","r","a","t","i","s">>,
       <<"p","o","s","t","i">>,
       <<"p","o","s","t","o">>,
       <<"s","a","l","a">>,
       <<"c","i","n","e","m","a">>,
       <<"f","i","l","m">>,
       <<"p","r","o","i","e","z","i","o","n","e">>,
       <<"p","r","o","i","e","z","i","o","n","i">>,
       <<"f","e","s","t","i","v","a","l">>,
       <<"b","i","e","n","n","a","l","e">>,
       <<"v","e","n","e","z","i","a">> >>

\* the default of generate_diff's max_lines
DefaultMaxLines == 10

\* n of the call of difflib.unified_diff
ContextLines == 2

----------------------------------------------------------------------------
(* sha: SHA-256 is taken to be collision free, so the digest of a text is  *)
(* modelled as the text tagged as a digest; None is Python's None.         *)

None == <<"None">>

sha(text) == <<"sha256", text>>

\* contains_keywords(text, keywords)
contains_keywords(text, keywords) ==
    LET text_lower == Lower(text)
    IN  \E n \in 1..Len(keywords) : IsSubstring(Lower(keywords[n]), text_lower)

----------------------------------------------------------------------------
(* difflib.unified_diff(old_lines, new_lines, fromfile='previous',         *)
(* tofile='current', lineterm='', n=2), as called by generate_diff.        *)
(* Indices are Python's: 0-based, ranges half open, so a[i] is a[i + 1]    *)
(* here.  The sequences are shorter than 200 lines, where SequenceMatcher's *)
(* autojunk heuristic is off, and no junk predicate is given.              *)

\* length of the common run of a[i:ahi] and b[j:bhi] from their starts
RECURSIVE MatchLen(_, _, _, _, _, _)
MatchLen(a, b, i, ahi, j, bhi) ==
    IF i < ahi /\ j < bhi /\ a[i + 1] = b[j + 1]
    THEN 1 + MatchLen(a, b, i + 1, ahi, j + 1, bhi)
    ELSE 0

\* SequenceMatcher.find_longest_match: the longest block a[i:i+k] = b[j:j+k]
\* inside a[alo:ahi] and b[blo:bhi]; of the longest blocks the one that starts
\* earliest in a, and of those the one that starts earliest in b
find_longest_match(a, b, alo, ahi, blo, bhi) ==
    LET pairs == (alo..(ahi - 1)) \X (blo..(bhi - 1))
        size == [p \in pairs |-> MatchLen(a, b, p[1], ahi, p[2], bhi)]
        longest == {p \in pairs : \A q \in pairs : size[q] <= size[p]}
        besti == CHOOSE i \in {p[1] : p \in longest} :
                     \A p \in longest : i <= p[1]
        bestj == CHOOSE j \in {p[2] : p \in {q \in longest : q[1] = besti}} :
                     \A p \in longest : p[1] = besti => j <= p[2]
    IN  IF \A p \in pairs : size[p] = 0
        THEN <<alo, blo, 0>>
        ELSE <<besti, bestj, size[<<besti, bestj>>]>>

\* the blocks SequenceMatcher.get_matching_blocks collects, sorted
RECURSIVE MatchingBlocksIn(_, _, _, _, _, _)
MatchingBlocksIn(a, b, alo, ahi, blo, bhi) ==
    LET x == find_longest_match(a, b, alo, ahi, blo, bhi)
        i == x[1]
        j == x[2]
        k == x[3]
    IN  IF k = 0 THEN <<>>
        ELSE (IF alo < i /\ blo < j
              THEN MatchingBlocksIn(a, b, alo, i, blo, j) ELSE <<>>)
             \o <<x>>
             \o (IF i + k < ahi /\ j + k < bhi
                 THEN MatchingBlocksIn(a, b, i + k, ahi, j + k, bhi) ELSE <<>>)

\* get_matching_blocks' pass that merges adjacent blocks; cur is (i1, j1, k1)
RECURSIVE CollapseAdjacent(_, _)
CollapseAdjacent(blocks, cur) ==
    IF blocks = <<>> THEN (IF cur[3] # 0 THEN <<cur>> ELSE <<>>)
    ELSE LET x == Head(blocks)
         IN  IF cur[1] + cur[3] = x[1] /\ cur[2] + cur[3] = x[2]
             THEN CollapseAdjacent(Tail(blocks), <<cur[1], cur[2], cur[3] + x[3]>>)
             ELSE (IF cur[3] # 0 THEN <<cur>> ELSE <<>>)
                  \o CollapseAdjacent(Tail(blocks), x)

\* SequenceMatcher.get_matching_blocks
get_matching_blocks(a, b) ==
    Append(CollapseAdjacent(MatchingBlocksIn(a, b, 0, Len(a), 0, Len(b)),
                            <<0, 0, 0>>),
           <<Len(a), Len(b), 0>>)

\* SequenceMatcher.get_opcodes' loop over the matching blocks, from (i, j)
RECURSIVE OpcodesFrom(_, _, _)
OpcodesFrom(blocks, i, j) ==
    IF blocks = <<>> THEN <<>>
    ELSE LET ai == Head(blocks)[1]
             bj == Head(blocks)[2]
             size == Head(blocks)[3]
             tag == IF i < ai /\ j < bj THEN "replace"
                    ELSE IF i < ai THEN "delete"
                    ELSE IF j < bj THEN "insert"
                    ELSE ""
         IN  (IF tag # "" THEN << <<tag, i, ai, j, bj>> >> ELSE <<>>)
             \o (IF size # 0
                 THEN << <<"equal", ai, ai + size, bj, bj + size>> >> ELSE <<>>)
             \o OpcodesFrom(Tail(blocks), ai + size, bj + size)

get_opcodes(a, b) == OpcodesFrom(get_matching_blocks(a, b), 0, 0)

\* get_grouped_opcodes' fix-up of a leading and a trailing "equal" opcode
FixupEnds(codes0, n) ==
    LET codes == IF codes0 = <<>> THEN << <<"equal", 0, 1, 0, 1>> >> ELSE codes0
        f == codes[1]
        c1 == IF f[1] = "equal"
              THEN [codes EXCEPT ![1] =
                       <<f[1], Max(f[2], f[3] - n), f[3], Max(f[4], f[5] - n), f[5]>>]
              ELSE codes
        l == c1[Len(c1)]
    IN  IF l[1] = "equal"
        THEN [c1 EXCEPT ![Len(c1)] =
                 <<l[1], l[2], Min(l[3], l[2] + n), l[4], Min(l[5], l[4] + n)>>]
        ELSE c1

\* get_grouped_opcodes' loop: the groups yielded from codes, group being the
\* group under construction
RECURSIVE GroupsFrom(_, _, _)
GroupsFrom(codes, group, n) ==
    IF codes = <<>>
    THEN IF group # <<>> /\ ~(Len(group) = 1 /\ group[1][1] = "equal")
         THEN <<group>> ELSE <<>>
    ELSE LET c == Head(codes)
             tag == c[1]
             i1 == c[2]
             i2 == c[3]
             j1 == c[4]
             j2 == c[5]
         IN  IF tag = "equal" /\ i2 - i1 > n + n
             THEN <<Append(group, <<tag, i1, Min(i2, i1 + n), j1, Min(j2, j1 + n)>>)>>
                  \o GroupsFrom(Tail(codes),
                                << <<tag, Max(i1, i2 - n), i2, Max(j1, j2 - n), j2>> >>,
                                n)
             ELSE GroupsFrom(Tail(codes), Append(group, c), n)

\* SequenceMatcher.get_grouped_opcodes(n)
get_grouped_opcodes(a, b, n) == GroupsFrom(FixupEnds(get_opcodes(a, b), n), <<>>, n)

\* difflib._format_range_unified
format_range_unified(start, stop) ==
    LET beginning == start + 1
        length == stop - start
    IN  IF length = 1 THEN IntToStr(beginning)
        ELSE IntToStr(IF length = 0 THEN beginning - 1 ELSE beginning)
             \o <<",">> \o IntToStr(length)

\* prefix + line for each line of lines
Prefixed(prefix, lines) == [i \in 1..Len(lines) |-> prefix \o lines[i]]

\* the lines unified_diff yields for the opcodes of one group
RECURSIVE GroupLines(_, _, _)
GroupLines(a, b, group) ==
    IF group = <<>> THEN <<>>
    ELSE LET c == Head(group)
             tag == c[1]
             from == SubSeq(a, c[2] + 1, c[3])
             to == SubSeq(b, c[4] + 1, c[5])
         IN  (IF tag = "equal" THEN Prefixed(<<" ">>, from)
              ELSE (IF tag \in {"replace", "delete"}
                    THEN Prefixed(<<"-">>, from) ELSE <<>>)
                   \o (IF tag \in {"replace", "insert"}
                       THEN Prefixed(<<"+">>, to) ELSE <<>>))
             \o GroupLines(a, b, Tail(group))

\* the hunk header and the lines of each group
RECURSIVE HunksFrom(_, _, _)
HunksFrom(a, b, groups) ==
    IF groups = <<>> THEN <<>>
    ELSE LET group == Head(groups)
             first == group[1]
             last == group[Len(group)]
         IN  << <<"@", "@", " ", "-">> \o format_range_unified(first[2], last[3])
                   \o <<" ", "+">> \o format_range_unified(first[4], last[5])
                   \o <<" ", "@", "@">> >>
             \o GroupLines(a, b, group)
             \o HunksFrom(a, b, Tail(groups))

\* list(difflib.unified_diff(a, b, fromfile='previous', tofile='current',
\*                           lineterm='', n=n))
unified_diff(a, b, n) ==
    LET groups == get_grouped_opcodes(a, b, n)
    IN  IF groups = <<>> THEN <<>>
        ELSE << <<"-","-","-"," ","p","r","e","v","i","o","u","s">>,
                <<"+","+","+"," ","c","u","r","r","e","n","t">> >>
             \o HunksFrom(a, b, groups)

----------------------------------------------------------------------------
(* generate_diff(old_text, new_text, max_lines) -> (diff_text, has_keywords) *)

\* a keyword check of the context lines as well as of the additions
RECURSIVE FilterAdditionsContextKeywords(_, _)
FilterAdditionsContextKeywords(lines, acc) ==
    IF lines = <<>> THEN acc
    ELSE LET line == Head(lines)
             kept == StartsWith(line, "+")
                     \/ (StartsWith(line, " ") /\ acc[1] # <<>>)
             hit == contains_keywords(Strip(Tail(line)), TICKET_KEYWORDS)
         IN  FilterAdditionsContextKeywords(Tail(lines),
                 <<IF kept THEN Append(acc[1], line) ELSE acc[1],
                   IF kept /\ hit THEN Append(acc[2], line) ELSE acc[2]>>)

\* a filter that keeps the context lines ahead of the first addition too
RECURSIVE FilterAdditionsAllContext(_, _)
FilterAdditionsAllContext(lines, acc) ==
    IF lines = <<>> THEN acc
    ELSE LET line == Head(lines)
             kept == StartsWith(line, "+") \/ StartsWith(line, " ")
             hit == StartsWith(line, "+")
                    /\ contains_keywords(Strip(Tail(line)), TICKET_KEYWORDS)
         IN  FilterAdditionsAllContext(Tail(lines),
                 <<IF kept THEN Append(acc[1], line) ELSE acc[1],
                   IF hit THEN Append(acc[2], line) ELSE acc[2]>>)

\* the loop over diff[3:]: lines is what is left of the diff, acc the pair
\* (additions_only, keyword_additions) built so far
RECURSIVE FilterAdditions(_, _)
FilterAdditions(lines, acc) ==
    IF lines = <<>> THEN acc
    ELSE LET line == Head(lines)
             additions_only == acc[1]
             keyword_additions == acc[2]
             line_content == Strip(Tail(line))
         IN  IF StartsWith(line, "+")
             THEN FilterAdditions(Tail(lines),
                      <<Append(additions_only, line),
                        IF contains_keywords(line_content, TICKET_KEYWORDS)
                        THEN Append(keyword_additions, line)
                        ELSE keyword_additions>>)
             ELSE IF StartsWith(line, " ") /\ additions_only # <<>>
             THEN FilterAdditions(Tail(lines),
                      <<Append(additions_only, line), keyword_additions>>)
             ELSE FilterAdditions(Tail(lines), acc)

NewContentMessage(n) ==
    <<"U+1F4DD"," ","N","e","w"," ","c","o","n","t","e","n","t"," ",
      "(","f","i","r","s","t"," ">>
    \o IntToStr(n) \o <<" ","l","i","n","e","s",")",":">>

NoClearDiffMessage ==
    <<"U+1F4DD"," ","C","o","n","t","e","n","t"," ","c","h","a","n","g","e","d",
      " ","b","u","t"," ","n","o"," ","c","l","e","a","r"," ","d","i","f","f",
      " ","a","v","a","i","l","a","b","l","e">>

NoNewInformationMessage ==
    <<"U+1F4DD"," ","C","o","n","t","e","n","t"," ","c","h","a","n","g","e","d",
      " ","(","n","o"," ","n","e","w"," ","i","n","f","o","r","m","a","t","i",
      "o","n"," ","d","e","t","e","c","t","e","d",")">>

NewInformationMessage ==
    <<"U+1F4DD"," ","N","e","w"," ","i","n","f","o","r","m","a","t","i","o","n",":">>

generate_diff(old_text, new_text, max_lines) ==
    IF old_text = <<>>
    THEN LET new_lines == Take(Split(new_text), max_lines)
             diff_text == NewContentMessage(Len(new_lines)) \o <<NL>>
                          \o Join(Prefixed(<<"+", " ">>, new_lines), <<NL>>)
             has_keywords == contains_keywords(Join(new_lines, <<NL>>),
                                               TICKET_KEYWORDS)
         IN  <<diff_text, has_keywords>>
    ELSE LET old_lines == Split(old_text)
             new_lines == Split(new_text)
             diff == unified_diff(old_lines, new_lines, ContextLines)
             filtered == FilterAdditions(Drop(diff, 3), <<<<>>, <<>>>>)
             additions_only == Take(filtered[1], max_lines)
             keyword_additions == filtered[2]
         IN  IF diff = <<>> THEN <<NoClearDiffMessage, FALSE>>
             ELSE IF additions_only = <<>>
             THEN <<NoNewInformationMessage, FALSE>>
             ELSE <<NewInformationMessage \o <<NL>> \o <<"<","c","o","d","e",">">>
                      \o Join(additions_only, <<NL>>)
                      \o <<"<","/","c","o","d","e",">">>,
                    Len(keyword_additions) > 0>>

----------------------------------------------------------------------------
(* The environment of a run: the pages served and the notifier's outcomes  *)

\* the text fragments a page can show: one with a keyword ("sala") in other
\* case, one that is only the start of a keyword ("orari")
LineAlphabet == { <<"S","a","l","a">>, <<"o","r","a">> }

RECURSIVE SeqsUpTo(_, _)
SeqsUpTo(S, n) ==
    IF n = 0 THEN { <<>> }
    ELSE LET shorter == SeqsUpTo(S, n - 1)
         IN  shorter \cup { Append(q, x) : q \in shorter, x \in S }

\* the fragments of the monitored pages at their fullest, in document order
MasterLines ==
    << <<"S","a","l","a">>, <<"o","r","a">>, <<"U+20AC"," ","5">>, <<"M","u","s","e","o">> >>

\* the lines whose index is in keep, in order, from index i on
RECURSIVE KeptFrom(_, _, _)
KeptFrom(lines, keep, i) ==
    IF i > Len(lines) THEN <<>>
    ELSE (IF i \in keep THEN <<lines[i]>> ELSE <<>>)
         \o KeptFrom(lines, keep, i + 1)

\* a fetched page, as the non-empty stripped fragments of its visible text in
\* document order: any selection of the first MaxLen fragments
Htmls == { KeptFrom(MasterLines, keep, 1) : keep \in SUBSET (1..MaxLen) }

\* extract_text_content: the surviving fragments joined by single newlines
extract_text_content(html) == Join(html, <<NL>>)

\* the texts a snapshot or a fetch can hold in a run
Texts == { extract_text_content(html) : html \in Htmls }

\* generate_diff(old_text, new_text) as main calls it, worked out once for
\* every pair of texts a run can hold
DiffsOfTexts ==
    UNION { { <<p[1], p[2], generate_diff(p[1], p[2], DefaultMaxLines)>> } :
              p \in Texts \X Texts }

\* str(e) of the requests.exceptions.RequestException of a failed fetch
FetchFailures == { "Timeout" }

\* what a call of requests.post in send_telegram_message can come to
PostOutcomes == { "ok", "api_error", "request_exception" }

Tokens == { "", "123:abc" }
Channels == { "", "@channel" }

----------------------------------------------------------------------------
(* State *)

VARIABLES
    cache,                \* cache file of each page: [exists, text]
    KEY, CHANNEL_ID,      \* the Telegram configuration read from the environment
    run,                  \* number of the invocation of main()
    pc,                   \* where main() is
    page_idx,             \* index in PAGES of the page of the for loop
    page_new_text,        \* main's new_text, of the page being processed
    changes_detected,     \* main's changes_detected
    errors_encountered,   \* main's errors_encountered
    send_idx,             \* index of the next element of a notification loop
    sends,                \* the calls of send_telegram_message: [message, result]
    exit_code,            \* the exit status, once pc = "done"
    cache_at_start,       \* history: cache when this run started
    fetched,              \* history: what the fetch of each page came to
    outcome,              \* history: the branch main took for each page
    prev_fetched,         \* history: fetched of the run before
    prev_changes,         \* history: changes_detected of the run before
    d_pc,                 \* a call of generate_diff on its own: where it is,
    d_old, d_new, d_max,  \* its arguments
    d_result              \* and what it returned

vars == <<cache, KEY, CHANNEL_ID, run, pc, page_idx, page_new_text,
          changes_detected, errors_encountered, send_idx, sends, exit_code, cache_at_start,
          fetched, outcome, prev_fetched, prev_changes,
          d_pc, d_old, d_new, d_max, d_result>>

mainVars == <<cache, KEY, CHANNEL_ID, run, pc, page_idx, page_new_text,
              changes_detected, errors_encountered, send_idx, sends, exit_code,
              cache_at_start, fetched, outcome, prev_fetched, prev_changes>>

diffVars == <<d_pc, d_old, d_new, d_max, d_result>>

PageIds == 1..Len(PAGES)

Filenames == { PAGES[i].filename : i \in PageIds }

MissingFile == [exists |-> FALSE, text |-> <<>>]

NotFetched == [status |-> "pending", text |-> <<>>, error |-> ""]

NoOutcome == [state |-> "pending", summarized |-> FALSE, has_keywords |-> FALSE]

\* the error notifications sent in place of the change notifications
AfterPagesErrorsFirst(changes, errors) ==
    IF errors # <<>> THEN "notify_errors"
    ELSE IF changes # <<>> THEN "notify_changes"
    ELSE "exit"

\* where main goes once the loop over PAGES is over
AfterPages(changes, errors) ==
    IF changes # <<>> THEN "notify_changes"
    ELSE IF errors # <<>> THEN "notify_errors"
    ELSE "exit"

\* a loop that a recorded fetch error ends
NextPageStopsAfterError(i, changes, errors) ==
    IF i < Len(PAGES) /\ errors = <<>> THEN <<"fetch", i + 1>>
    ELSE <<AfterPages(changes, errors), i>>

\* a loop that never leaves its first page
NextPageStuck(i, changes, errors) == <<"fetch", i>>

\* the for loop's step from page i
NextPage(i, changes, errors) ==
    IF i < Len(PAGES) THEN <<"fetch", i + 1>>
    ELSE <<AfterPages(changes, errors), i>>

\* the first invocation, on a machine with no cache yet
InitMain ==
    /\ cache = [f \in Filenames |-> MissingFile]
    /\ KEY \in Tokens
    /\ CHANNEL_ID \in Channels
    /\ run = 1
    /\ pc = "fetch"
    /\ page_idx = 1
    /\ page_new_text = <<>>
    /\ changes_detected = <<>>
    /\ errors_encountered = <<>>
    /\ send_idx = 1
    /\ sends = <<>>
    /\ exit_code = 0
    /\ cache_at_start = cache
    /\ fetched = [i \in PageIds |-> NotFetched]
    /\ outcome = [i \in PageIds |-> NoOutcome]
    /\ prev_fetched = [i \in PageIds |-> NotFetched]
    /\ prev_changes = <<>>

Init ==
    /\ InitMain
    /\ d_pc = "idle"
    /\ d_old = <<>>
    /\ d_new = <<>>
    /\ d_max = 0
    /\ d_result = <<<<>>, FALSE>>

----------------------------------------------------------------------------
(* main(): the loop over PAGES *)

\* an except branch that only prints
RecordErrorDropped(errors, page, e) == errors

\* errors_encountered.append({...}) of the except branch
RecordError(errors, page, e) ==
    Append(errors, [page_name |-> page.page_name, url |-> page.url, error |-> e])

\* fetch_page raises: the except branch records the error, the cache file is
\* not touched
FetchFails(e) ==
    LET page == PAGES[page_idx]
        errors == RecordError(errors_encountered, page, e)
        next == NextPage(page_idx, changes_detected, errors)
    IN  /\ pc = "fetch"
        /\ errors_encountered' = errors
        /\ fetched' = [fetched EXCEPT ![page_idx] =
                          [status |-> "error", text |-> <<>>, error |-> e]]
        /\ outcome' = [outcome EXCEPT ![page_idx].state = "error"]
        /\ pc' = next[1]
        /\ page_idx' = next[2]
        /\ UNCHANGED <<cache, KEY, CHANNEL_ID, run, page_new_text, changes_detected,
                       send_idx, sends, exit_code, cache_at_start,
                       prev_fetched, prev_changes>>
        /\ UNCHANGED diffVars

\* fetch_page returns html: main's new_text is its extracted text
FetchSucceeds(html) ==
    /\ pc = "fetch"
    /\ page_new_text' = extract_text_content(html)
    /\ fetched' = [fetched EXCEPT ![page_idx] =
                      [status |-> "ok", text |-> extract_text_content(html),
                       error |-> ""]]
    /\ pc' = "compare"
    /\ UNCHANGED <<cache, KEY, CHANNEL_ID, run, page_idx, changes_detected,
                   errors_encountered, send_idx, sends, exit_code,
                   cache_at_start, outcome, prev_fetched, prev_changes>>
    /\ UNCHANGED diffVars

\* an old_hash that is never computed
OldHashAlwaysNone(old_text) == None

\* old_hash of main: None when the cache file is missing or empty
OldHash(old_text) == IF old_text # <<>> THEN sha(old_text) ELSE None

\* a ChangeEvent for every change, relevant or not
ShouldNotifyAnyChange(changed, has_keywords) == changed

\* the test of has_keywords turned round
ShouldNotifyIrrelevant(changed, has_keywords) == changed /\ ~has_keywords

\* "if old_hash != new_hash: ... if has_keywords:": whether a ChangeEvent is
\* appended to changes_detected
ShouldNotify(changed, has_keywords) == changed /\ has_keywords

\* a write that leaves the file as it was
write_text_dropped(file, text) == file

\* a write that creates the file and writes nothing
write_text_truncating(file, text) == [exists |-> TRUE, text |-> <<>>]

\* cache_file.write_text(new_text): the file afterwards
write_text(file, text) == [exists |-> TRUE, text |-> text]

\* the comparison with the snapshot, the summary, the ChangeEvent and the
\* write of the cache file
ComparePersist ==
    /\ pc = "compare"
    /\ LET page == PAGES[page_idx]
           cache_file == page.filename
           new_hash == sha(page_new_text)
           old_text == IF cache[cache_file].exists THEN cache[cache_file].text
                       ELSE <<>>
           old_hash == OldHash(old_text)
           changed == old_hash # new_hash
       IN  \E result \in { d[3] : d \in { t \in DiffsOfTexts :
                                             /\ t[1] = old_text
                                             /\ t[2] = page_new_text } } :
             LET diff_text == result[1]
                 has_keywords == result[2]
                 changes == IF ShouldNotify(changed, has_keywords)
                            THEN Append(changes_detected,
                                        [page_name |-> page.page_name,
                                         url |-> page.url,
                                         hash |-> new_hash,
                                         diff |-> diff_text])
                            ELSE changes_detected
                 next == NextPage(page_idx, changes, errors_encountered)
             IN  /\ changes_detected' = changes
                 /\ outcome' = [outcome EXCEPT ![page_idx] =
                       IF ~changed
                       THEN [state |-> "no-change", summarized |-> FALSE,
                             has_keywords |-> FALSE]
                       ELSE [state |-> IF has_keywords THEN "changed-notify"
                                       ELSE "changed-skip",
                             summarized |-> TRUE,
                             has_keywords |-> has_keywords]]
                 /\ cache' = [cache EXCEPT ![cache_file] =
                                 write_text(@, page_new_text)]
                 /\ pc' = next[1]
                 /\ page_idx' = next[2]
    /\ UNCHANGED <<KEY, CHANNEL_ID, run, page_new_text, errors_encountered,
                   send_idx, sends, exit_code, cache_at_start, fetched,
                   prev_fetched, prev_changes>>
        /\ UNCHANGED diffVars

----------------------------------------------------------------------------
(* main(): the notifications and the exit *)

\* send_telegram_message without its except clause
send_telegram_message_uncaught(message, post) ==
    IF KEY = "" \/ CHANNEL_ID = ""
    THEN [message |-> message, posted |-> FALSE, result |-> FALSE,
          raised |-> FALSE]
    ELSE [message |-> message, posted |-> TRUE, result |-> (post = "ok"),
          raised |-> (post = "request_exception")]

\* send_telegram_message(message) when requests.post comes to post: whether
\* the message was posted, the value returned, and whether an exception left
\* the function (the RequestException of a failed post is caught inside)
send_telegram_message(message, post) ==
    IF KEY = "" \/ CHANNEL_ID = ""
    THEN [message |-> message, posted |-> FALSE, result |-> FALSE,
          raised |-> FALSE]
    ELSE [message |-> message, posted |-> TRUE, result |-> (post = "ok"),
          raised |-> FALSE]

\* the message of a ChangeEvent: the template and what is put into it
ChangeMessage(change) ==
    [template |-> "Update!", page_name |-> change.page_name,
     body |-> change.diff, url |-> change.url]

\* the message of a FetchError
ErrorMessage(error) ==
    [template |-> "Watcher Error", page_name |-> error.page_name,
     body |-> error.error, url |-> error.url]

\* an exit that never reports failure
ExitCodeAlwaysZero(errors) == 0

\* "if errors_encountered: sys.exit(1)"; the end of the script exits with 0
ExitCode(errors) == IF errors # <<>> THEN 1 ELSE 0

\* the exit status of a run ended by an exception nobody catches
Traceback == 1

\* a turn that puts the snapshots back when its message was not delivered
SendChangeRollingBack(post) ==
    LET sent == send_telegram_message(
                    ChangeMessage(changes_detected[send_idx]), post)
    IN  /\ pc = "notify_changes"
        /\ sends' = Append(sends, sent)
        /\ cache' = IF sent.result THEN cache ELSE cache_at_start
        /\ IF send_idx < Len(changes_detected)
           THEN /\ send_idx' = send_idx + 1
                /\ pc' = pc
           ELSE /\ send_idx' = 1
                /\ pc' = IF errors_encountered # <<>>
                         THEN "notify_errors" ELSE "exit"
        /\ UNCHANGED <<KEY, CHANNEL_ID, run, page_idx, page_new_text,
                       changes_detected, errors_encountered, exit_code,
                       cache_at_start, fetched, outcome, prev_fetched,
                       prev_changes>>
        /\ UNCHANGED diffVars

\* one turn of "for change in changes_detected"; main ignores the value
\* returned, and has no handler should the call raise
SendChange(post) ==
    LET sent == send_telegram_message(
                    ChangeMessage(changes_detected[send_idx]), post)
    IN  /\ pc = "notify_changes"
        /\ sends' = Append(sends, sent)
        /\ IF sent.raised
           THEN /\ pc' = "done"
                /\ exit_code' = Traceback
                /\ UNCHANGED send_idx
           ELSE /\ IF send_idx < Len(changes_detected)
                   THEN /\ send_idx' = send_idx + 1
                        /\ pc' = pc
                   ELSE /\ send_idx' = 1
                        /\ pc' = IF errors_encountered # <<>>
                                 THEN "notify_errors" ELSE "exit"
                /\ UNCHANGED exit_code
        /\ UNCHANGED <<cache, KEY, CHANNEL_ID, run, page_idx, page_new_text,
                       changes_detected, errors_encountered, cache_at_start,
                       fetched, outcome, prev_fetched, prev_changes>>
        /\ UNCHANGED diffVars

\* one turn of "for error in errors_encountered"
SendError(post) ==
    LET sent == send_telegram_message(
                    ErrorMessage(errors_encountered[send_idx]), post)
    IN  /\ pc = "notify_errors"
        /\ sends' = Append(sends, sent)
        /\ IF sent.raised
           THEN /\ pc' = "done"
                /\ exit_code' = Traceback
                /\ UNCHANGED send_idx
           ELSE /\ IF send_idx < Len(errors_encountered)
                   THEN /\ send_idx' = send_idx + 1
                        /\ pc' = pc
                   ELSE /\ send_idx' = 1
                        /\ pc' = "exit"
                /\ UNCHANGED exit_code
        /\ UNCHANGED <<cache, KEY, CHANNEL_ID, run, page_idx, page_new_text,
                       changes_detected, errors_encountered, cache_at_start,
                       fetched, outcome, prev_fetched, prev_changes>>
        /\ UNCHANGED diffVars

\* the end of main
Exit ==
    /\ pc = "exit"
    /\ exit_code' = ExitCode(errors_encountered)
    /\ pc' = "done"
    /\ UNCHANGED <<cache, KEY, CHANNEL_ID, run, page_idx, page_new_text,
                   changes_detected, errors_encountered, send_idx, sends,
                   cache_at_start, fetched, outcome, prev_fetched, prev_changes>>
    /\ UNCHANGED diffVars

\* the next scheduled invocation of the script: the cache directory is what the
\* run before left, everything else starts anew
StartRun ==
    /\ pc = "done"
    /\ run < MaxRuns
    /\ run' = run + 1
    /\ pc' = "fetch"
    /\ page_idx' = 1
    /\ page_new_text' = <<>>
    /\ changes_detected' = <<>>
    /\ errors_encountered' = <<>>
    /\ send_idx' = 1
    /\ sends' = <<>>
    /\ exit_code' = 0
    /\ cache_at_start' = cache
    /\ fetched' = [i \in PageIds |-> NotFetched]
    /\ outcome' = [i \in PageIds |-> NoOutcome]
    /\ prev_fetched' = fetched
    /\ prev_changes' = changes_detected
    /\ UNCHANGED <<cache, KEY, CHANNEL_ID>>
    /\ UNCHANGED diffVars

Next ==
    \/ \E e \in FetchFailures : FetchFails(e)
    \/ \E html \in Htmls : FetchSucceeds(html)
    \/ ComparePersist
    \/ \E post \in PostOutcomes : SendChange(post)
    \/ \E post \in PostOutcomes : SendError(post)
    \/ Exit
    \/ StartRun

Spec == Init /\ [][Next]_vars

\* main runs as one sequential process: whenever a step of it is enabled, a
\* step is taken; the scheduler starts every run it has planned
FairSpec == Spec /\ WF_vars(Next)

----------------------------------------------------------------------------
(* generate_diff on its own, for every pair of texts and every max_lines   *)

\* a page long enough for a change at each end to fall into two hunks
PaddedPages ==
    { <<x>> \o [i \in 1..(2 * ContextLines + 1) |-> <<"o","r","a">>] \o <<y>> :
        x \in LineAlphabet, y \in LineAlphabet }

DiffTexts ==
    { Join(lines, <<NL>>) : lines \in SeqsUpTo(LineAlphabet, MaxDiffLen) \cup PaddedPages }

InitDiff ==
    /\ cache = [f \in Filenames |-> MissingFile]
    /\ KEY = ""
    /\ CHANNEL_ID = ""
    /\ run = 1
    /\ pc = "done"
    /\ page_idx = 1
    /\ page_new_text = <<>>
    /\ changes_detected = <<>>
    /\ errors_encountered = <<>>
    /\ send_idx = 1
    /\ sends = <<>>
    /\ exit_code = 0
    /\ cache_at_start = cache
    /\ fetched = [i \in PageIds |-> NotFetched]
    /\ outcome = [i \in PageIds |-> NoOutcome]
    /\ prev_fetched = [i \in PageIds |-> NotFetched]
    /\ prev_changes = <<>>
    /\ d_pc = "called"
    /\ d_old \in DiffTexts
    /\ d_new \in DiffTexts
    /\ d_max \in (0..MaxMaxLines) \cup {DefaultMaxLines}
    /\ d_result = <<<<>>, FALSE>>

GenerateDiff ==
    /\ d_pc = "called"
    /\ d_result' = generate_diff(d_old, d_new, d_max)
    /\ d_pc' = "returned"
    /\ UNCHANGED <<d_old, d_new, d_max>>
    /\ UNCHANGED mainVars

NextDiff == GenerateDiff

SpecDiff == InitDiff /\ [][NextDiff]_vars

----------------------------------------------------------------------------
(* Vocabulary of the properties *)

\* the snapshot of page i when the run started
PriorFile(i) == cache_at_start[PAGES[i].filename]

\* the text of that snapshot, "" when there is none
PriorText(i) == IF PriorFile(i).exists THEN PriorFile(i).text ELSE <<>>

\* the fingerprint of that snapshot, None when there is none
PriorFingerprint(i) ==
    IF PriorFile(i).exists THEN sha(PriorFile(i).text) ELSE None

\* the snapshot of page i now
Snapshot(i) == cache[PAGES[i].filename]

\* page i has reached a terminal state in this run
Terminal(i) == outcome[i].state # "pending"

FetchOk(i) == fetched[i].status = "ok"

\* the ChangeEvents and FetchErrors collected for page i
EventsOf(i) ==
    { n \in 1..Len(changes_detected) :
        changes_detected[n].page_name = PAGES[i].page_name }

ErrorsOf(i) ==
    { n \in 1..Len(errors_encountered) :
        errors_encountered[n].page_name = PAGES[i].page_name }

HasEvent(i) == EventsOf(i) # {}

\* the lines a change from old to new adds: every line of a first
\* text, the "+" lines of the unified diff otherwise
AddedLines(old, new) ==
    IF old = <<>> THEN { Split(new)[n] : n \in 1..Len(Split(new)) }
    ELSE LET body == Drop(unified_diff(Split(old), Split(new),
                                       ContextLines), 2)
         IN  { Tail(body[n]) : n \in { m \in 1..Len(body) : StartsWith(body[m], "+") } }

NoKeywordAdded(old, new) ==
    \A line \in AddedLines(old, new) :
        ~contains_keywords(line, TICKET_KEYWORDS)

\* the changes between texts of a run that add no keyword
KeywordFreeChanges ==
    UNION { IF NoKeywordAdded(p[1], p[2]) THEN {p} ELSE {} : p \in Texts \X Texts }

SomeSendFailed == \E n \in 1..Len(sends) : ~sends[n].result

AllTerminal == \A i \in PageIds : Terminal(i)

----------------------------------------------------------------------------
(* Properties of a run (specification Spec) *)

\* C1: a ChangeEvent is collected for a page if and only if its fetch
\* succeeded, the fingerprint of the new text differs from the fingerprint of
\* the prior snapshot and the summarizer returned relevance = true; a change
\* whose added lines hold no keyword gives no ChangeEvent although the
\* fingerprint changed.
C1_EventIffRelevantChange ==
    \A i \in PageIds :
        LET differs == PriorFingerprint(i) # sha(fetched[i].text)
        IN  /\ HasEvent(i) <=>
                  (/\ Terminal(i)
                   /\ FetchOk(i)
                   /\ differs
                   /\ outcome[i].summarized
                   /\ outcome[i].has_keywords)
            /\ (Terminal(i) /\ FetchOk(i) /\ differs
                  /\ <<PriorText(i), fetched[i].text>> \in KeywordFreeChanges)
               => ~HasEvent(i)

\* a page with a keyword gets a line without one added: no event; another page
\* has its event
C1_Witness ==
    \E i, j \in PageIds :
        /\ Terminal(i) /\ FetchOk(i)
        /\ PriorText(i) # <<>>
        /\ PriorFingerprint(i) # sha(fetched[i].text)
        /\ contains_keywords(fetched[i].text, TICKET_KEYWORDS)
        /\ <<PriorText(i), fetched[i].text>> \in KeywordFreeChanges
        /\ ~HasEvent(i)
        /\ HasEvent(j)

\* C2: for every page whose fetch succeeds the stored snapshot, once the page
\* is processed, is the newly extracted text, in each of the states no-change,
\* changed-notify and changed-skip and whatever the notifications come to.
C2_SnapshotIsFetchedText ==
    \A i \in PageIds :
        (Terminal(i) /\ FetchOk(i)) =>
            /\ outcome[i].state \in {"no-change", "changed-notify", "changed-skip"}
            /\ Snapshot(i).exists
            /\ Snapshot(i).text = fetched[i].text

\* a finished run with a page in each of the three states and a failed send
C2_Witness ==
    /\ pc = "done"
    /\ { outcome[i].state : i \in PageIds }
          = {"no-change", "changed-notify", "changed-skip"}
    /\ \A i \in PageIds : Snapshot(i).text = fetched[i].text
    /\ SomeSendFailed

\* C3: when the fetch of a page fails, its snapshot, present or absent, stays
\* what it was before the run, exactly one FetchError is recorded for the page
\* and no ChangeEvent.
C3_FetchFailureKeepsSnapshot ==
    \A i \in PageIds :
        fetched[i].status = "error" =>
            /\ outcome[i].state = "error"
            /\ Snapshot(i) = PriorFile(i)
            /\ Cardinality(ErrorsOf(i)) = 1
            /\ ~HasEvent(i)

\* a finished run in which a page with a snapshot and a page without one both
\* failed to fetch
C3_Witness ==
    /\ pc = "done"
    /\ \E i, j \in PageIds :
        /\ fetched[i].status = "error" /\ PriorFile(i).exists
        /\ PriorFile(i).text # <<>> /\ Snapshot(i) = PriorFile(i)
        /\ fetched[j].status = "error" /\ ~PriorFile(j).exists
        /\ ~Snapshot(j).exists

\* the terminal state that the prior snapshot and the fetched text of one page
\* determine
ExpectedState(prior_text, text) ==
    IF OldHash(prior_text) = sha(text) THEN "no-change"
    ELSE IF generate_diff(prior_text, text, DefaultMaxLines)[2]
    THEN "changed-notify"
    ELSE "changed-skip"

\* ExpectedState over the texts of a run, as the set of its
\* <<prior text, fetched text, state>>
ExpectedStates ==
    UNION { { <<p[1], p[2], ExpectedState(p[1], p[2])>> } : p \in Texts \X Texts }

\* C4: a fetch failure on one page neither blocks nor alters the processing of
\* any other: once the loop is over every page is terminal, and every page
\* whose fetch succeeded is classified and persisted as its own snapshot and
\* its own fetched text determine, wherever and however many the failures.
C4_FetchFailureIsolated ==
    /\ pc \notin {"fetch", "compare"} => AllTerminal
    /\ \A i \in PageIds :
        (Terminal(i) /\ FetchOk(i)) =>
            /\ <<PriorText(i), fetched[i].text, outcome[i].state>> \in ExpectedStates
            /\ HasEvent(i) <=> outcome[i].state = "changed-notify"
            /\ Snapshot(i) = [exists |-> TRUE, text |-> fetched[i].text]

\* the first and the last page fail, the page between them has a real change
C4_Witness ==
    /\ pc = "done"
    /\ fetched[1].status = "error"
    /\ outcome[2].state = "changed-notify"
    /\ PriorText(2) # <<>>
    /\ Snapshot(2).text = fetched[2].text
    /\ fetched[3].status = "error"

\* C5: the exit code is nonzero if and only if at least one FetchError was
\* recorded in the run, whatever the number of ChangeEvents and whatever the
\* sends came to.
C5_ExitCodeIffFetchError ==
    pc = "done" =>
        (exit_code # 0 <=> \E i \in PageIds : fetched[i].status = "error")

\* exit code 0 although a send failed, and exit code 1 would need an error
C5_Witness ==
    /\ pc = "done"
    /\ exit_code = 0
    /\ changes_detected # <<>>
    /\ SomeSendFailed

\* the pages in the state s, in the order of PAGES
PagesIn(s) == SelectSeq([i \in PageIds |-> i], LAMBDA i : outcome[i].state = s)

\* the notifications due: one per changed-notify page, then one per error page
ExpectedSends ==
    [n \in 1..Len(PagesIn("changed-notify")) |->
        <<"Update!", PAGES[PagesIn("changed-notify")[n]].page_name>>]
    \o [n \in 1..Len(PagesIn("error")) |->
        <<"Watcher Error", PAGES[PagesIn("error")[n]].page_name>>]

\* the notifications attempted
AttemptedSends ==
    [n \in 1..Len(sends) |->
        <<sends[n].message.template, sends[n].message.page_name>>]

\* C6: no notification is sent before every page is terminal; then one send is
\* attempted per ChangeEvent in page order, after them one per FetchError in
\* page order, and nothing else is sent.
C6_NotificationsAfterAllPages ==
    /\ sends # <<>> => AllTerminal
    /\ AllTerminal =>
        /\ Len(AttemptedSends) <= Len(ExpectedSends)
        /\ AttemptedSends = SubSeq(ExpectedSends, 1, Len(AttemptedSends))
    /\ pc = "done" => AttemptedSends = ExpectedSends

\* a finished run with two ChangeEvents and a FetchError between them
C6_Witness ==
    /\ pc = "done"
    /\ outcome[1].state = "changed-notify"
    /\ outcome[2].state = "error"
    /\ outcome[3].state = "changed-notify"
    /\ Len(sends) = 3

\* the snapshot a finished loop must leave for page i
FinalSnapshot(i) ==
    IF FetchOk(i) THEN [exists |-> TRUE, text |-> fetched[i].text]
    ELSE PriorFile(i)

\* C7: a failed send does not abort the sends that remain, changes no snapshot
\* and does not change the exit code: every ChangeEvent and every FetchError
\* gets its send attempt.
C7_FailedSendIsBestEffort ==
    SomeSendFailed =>
        /\ \A i \in PageIds : Snapshot(i) = FinalSnapshot(i)
        /\ pc = "done" =>
            /\ Len(sends) = Len(changes_detected) + Len(errors_encountered)
            /\ exit_code = IF errors_encountered # <<>> THEN 1 ELSE 0

\* a finished run whose first send failed on a transport or API error and
\* which went on to send the rest
C7_Witness ==
    /\ pc = "done"
    /\ Len(sends) = 3
    /\ sends[1].posted /\ ~sends[1].result
    /\ sends[3].result
    /\ changes_detected # <<>>
    /\ errors_encountered # <<>>

\* C8: if a run fetches the text T of a page successfully and the next run
\* fetches the same T, the second run collects no ChangeEvent for the page and
\* leaves its snapshot what it was after the first, for the empty T too.
C8_NoOpRunIdempotent ==
    \A i \in PageIds :
        (/\ run > 1
         /\ prev_fetched[i].status = "ok"
         /\ Terminal(i) /\ FetchOk(i)
         /\ fetched[i].text = prev_fetched[i].text)
        => /\ ~HasEvent(i)
           /\ Snapshot(i) = PriorFile(i)
           /\ Snapshot(i) = [exists |-> TRUE, text |-> prev_fetched[i].text]

\* a second run that fetched the same empty text of one page and the same
\* text with a keyword of another
C8_Witness ==
    /\ run > 1
    /\ pc = "done"
    /\ \E i, j \in PageIds :
        /\ prev_fetched[i].status = "ok" /\ FetchOk(i)
        /\ fetched[i].text = <<>> /\ prev_fetched[i].text = <<>>
        /\ prev_fetched[j].status = "ok" /\ FetchOk(j)
        /\ fetched[j].text = prev_fetched[j].text
        /\ contains_keywords(fetched[j].text, TICKET_KEYWORDS)

\* C9: a page whose fetch succeeds ends in no-change, the summarizer not
\* invoked, exactly when the new fingerprint equals the prior fingerprint or
\* the prior snapshot is absent and the new text is empty.
C9_NoChangeIffSameFingerprint ==
    \A i \in PageIds :
        (Terminal(i) /\ FetchOk(i)) =>
            ((outcome[i].state = "no-change" /\ ~outcome[i].summarized)
             <=> \/ PriorFingerprint(i) = sha(fetched[i].text)
                 \/ (~PriorFile(i).exists /\ fetched[i].text = <<>>))

----------------------------------------------------------------------------
(* Properties of generate_diff (specification SpecDiff) *)

\* the content lines of a summary: the lines after the message line that are
\* an addition or a context line, the <code> tag before the first set aside
ContentLines(diff_text) ==
    LET lines == Split(diff_text)
        code == <<"<","c","o","d","e",">">>
        content(n) == IF n = 2 /\ Take(lines[n], Len(code)) = code
                      THEN Drop(lines[n], Len(code)) ELSE lines[n]
    IN  { n \in 2..Len(lines) :
            StartsWith(content(n), "+") \/ StartsWith(content(n), " ") }

\* C10: for every old text, empty or not, every new text and every
\* max_lines >= 0 the summary holds at most max_lines content lines.
C10_TruncationBound ==
    d_pc = "returned" => Cardinality(ContentLines(d_result[1])) <= d_max

\* a change to an existing text that adds more lines than max_lines, summarized
\* in exactly max_lines content lines
C10_Witness ==
    /\ d_pc = "returned"
    /\ d_old # <<>>
    /\ d_max >= 1
    /\ Cardinality(AddedLines(d_old, d_new)) >= 2
    /\ Len(FilterAdditions(Drop(unified_diff(Split(d_old), Split(d_new),
                                             ContextLines), 3),
                           <<<<>>, <<>>>>)[1]) > d_max
    /\ Cardinality(ContentLines(d_result[1])) = d_max

\* the lines of a summary below its message line, in order, the <code> and
\* </code> tags around them set aside
SummaryLines(diff_text) ==
    LET lines == Tail(Split(diff_text))
        open == <<"<","c","o","d","e",">">>
        close == <<"<","/","c","o","d","e",">">>
        opened(l) == IF Len(l) >= Len(open) /\ SubSeq(l, 1, Len(open)) = open
                     THEN SubSeq(l, Len(open) + 1, Len(l)) ELSE l
        closed(l) == IF Len(l) >= Len(close)
                        /\ SubSeq(l, Len(l) - Len(close) + 1, Len(l)) = close
                     THEN SubSeq(l, 1, Len(l) - Len(close)) ELSE l
        bare == [n \in 1..Len(lines) |->
                    LET l == IF n = 1 THEN opened(lines[n]) ELSE lines[n]
                    IN  IF n = Len(lines) THEN closed(l) ELSE l]
    IN  bare

\* the addition and context lines among them, in order
ShownLines(diff_text) ==
    SelectSeq(SummaryLines(diff_text),
              LAMBDA l : StartsWith(l, "+") \/ StartsWith(l, " "))

\* the addition lines among the lines a summary shows, marker stripped
ShownAdditions(diff_text) ==
    { Tail(ShownLines(diff_text)[n]) :
        n \in { m \in 1..Len(ShownLines(diff_text)) :
                  StartsWith(ShownLines(diff_text)[m], "+") } }

\* C11 as stated: with a prior snapshot and an addition line retained, the
\* relevance flag is true if and only if an addition line among the lines
\* shown in the summary (the retained list after truncation to max_lines)
\* contains a keyword.
C11_RelevanceOfShownAdditions ==
    (/\ d_pc = "returned"
     /\ d_old # <<>>
     /\ ShownAdditions(d_result[1]) # {})
    => (d_result[2] <=> \E line \in ShownAdditions(d_result[1]) :
                            contains_keywords(line, TICKET_KEYWORDS))

\* C11 as amended: with a prior snapshot and an addition line retained, the
\* relevance flag is true if and only if an addition line of the diff, shown
\* or cut off by the truncation to max_lines, contains a keyword; context
\* lines never contribute.
C11_RelevanceOfAllAdditions ==
    (/\ d_pc = "returned"
     /\ d_old # <<>>
     /\ ShownAdditions(d_result[1]) # {})
    => (d_result[2] <=> ~NoKeywordAdded(d_old, d_new))

\* a change whose only keyword addition is cut off by the truncation, next to
\* a context line that holds a keyword
C11_Witness ==
    /\ d_pc = "returned"
    /\ d_old # <<>>
    /\ ShownAdditions(d_result[1]) # {}
    /\ \A line \in ShownAdditions(d_result[1]) :
          ~contains_keywords(line, TICKET_KEYWORDS)
    /\ \E n \in 1..Len(ShownLines(d_result[1])) :
          /\ StartsWith(ShownLines(d_result[1])[n], " ")
          /\ contains_keywords(ShownLines(d_result[1])[n], TICKET_KEYWORDS)
    /\ ~NoKeywordAdded(d_old, d_new)
    /\ d_result[2]

\* C12: with no old text and a new text of more than max_lines lines, the
\* summary shows exactly the first max_lines lines of the new text, each marked
\* as an addition and in their order, and the relevance flag is true if and
\* only if a keyword occurs in one of those first max_lines lines.
C12_FirstRunWindow ==
    (/\ d_pc = "returned"
     /\ d_old = <<>>
     /\ Len(Split(d_new)) > d_max)
    => /\ ShownLines(d_result[1])
            = [n \in 1..d_max |-> <<"+", " ">> \o Split(d_new)[n]]
       /\ d_result[2] <=> \E n \in 1..d_max :
                              contains_keywords(Split(d_new)[n], TICKET_KEYWORDS)

\* a first text whose only keyword stands after the first max_lines lines:
\* not relevant
C12_Witness ==
    /\ d_pc = "returned"
    /\ d_old = <<>>
    /\ d_max >= 1
    /\ Len(Split(d_new)) > d_max
    /\ \E n \in (d_max + 1)..Len(Split(d_new)) :
          contains_keywords(Split(d_new)[n], TICKET_KEYWORDS)
    /\ Len(ShownLines(d_result[1])) = d_max
    /\ ~d_result[2]

\* the lines of a text, none for the empty text
LinesOf(text) == IF text = <<>> THEN <<>> ELSE Split(text)

\* new is old with lines removed from its end, none added or altered
StrictPrefixTruncation(old, new) ==
    /\ Len(LinesOf(new)) < Len(LinesOf(old))
    /\ LinesOf(new) = SubSeq(LinesOf(old), 1, Len(LinesOf(new)))

\* C13: for every non-empty old text and every new text that is a strict
\* prefix-truncation of it, down to the empty text included, generate_diff
\* reports "no new information detected" with relevance false.
C13_TruncationAddsNothing ==
    (/\ d_pc = "returned"
     /\ d_old # <<>>
     /\ StrictPrefixTruncation(d_old, d_new))
    => d_result = <<NoNewInformationMessage, FALSE>>

\* the body of the unified diff of two texts: what follows its two file lines
DiffBody(old, new) ==
    Drop(unified_diff(Split(old), Split(new), ContextLines), 2)

\* the addition lines of a diff body and the context lines that stand after
\* an addition, in order
AdditionsAndLaterContext(body) ==
    KeptFrom(body,
             { n \in 1..Len(body) :
                 \/ StartsWith(body[n], "+")
                 \/ /\ StartsWith(body[n], " ")
                    /\ \E m \in 1..(n - 1) : StartsWith(body[m], "+") },
             1)

\* C14: with a prior snapshot, the retained list is, before truncation, the
\* in-order subsequence of the diff body made of every addition line and every
\* context line after the first addition (so the summary holds its first
\* max_lines lines and nothing else), and the first retained line is an
\* addition.
C14_RetainedLines ==
    (d_pc = "returned" /\ d_old # <<>>)
    => LET retained == AdditionsAndLaterContext(DiffBody(d_old, d_new))
           shown == SummaryLines(d_result[1])
       IN  /\ shown = SubSeq(retained, 1, Min(d_max, Len(retained)))
           /\ shown # <<>> => StartsWith(shown[1], "+")

\* a diff whose first addition stands after a hunk header, a context line and
\* a removal, and ahead of another context line; nothing is truncated
C14_Witness ==
    /\ d_pc = "returned"
    /\ d_old # <<>>
    /\ LET body == DiffBody(d_old, d_new)
           first == CHOOSE n \in 1..Len(body) :
                       /\ StartsWith(body[n], "+")
                       /\ \A m \in 1..(n - 1) : ~StartsWith(body[m], "+")
       IN  /\ \E n \in 1..Len(body) : StartsWith(body[n], "+")
           /\ \E n \in 1..first : StartsWith(body[n], "@")
           /\ \E n \in 1..first : StartsWith(body[n], " ")
           /\ \E n \in 1..first : StartsWith(body[n], "-")
           /\ \E n \in first..Len(body) : StartsWith(body[n], " ")
           /\ d_max >= Len(AdditionsAndLaterContext(body))
           /\ SummaryLines(d_result[1]) = AdditionsAndLaterContext(body)

----------------------------------------------------------------------------
(* Further properties of a run (specification Spec) *)

\* the pairs (old text, new text) of a run on which generate_diff returns
\* through its empty-diff branch
EmptyDiffPairs ==
    UNION { IF generate_diff(p[1], p[2], DefaultMaxLines)
                 = <<NoClearDiffMessage, FALSE>>
            THEN {p} ELSE {} : p \in Texts \X Texts }

\* C15: in no run and for no pair of prior snapshot and fetched text does a
\* call of generate_diff made by main return through the empty-diff branch.
C15_EmptyDiffBranchUnreachable ==
    \A i \in PageIds :
        (Terminal(i) /\ outcome[i].summarized)
        => <<PriorText(i), fetched[i].text>> \notin EmptyDiffPairs

\* a later run summarizes the change of a page whose snapshot, handed to
\* generate_diff twice, would take the empty-diff branch
C15_Witness ==
    \E i \in PageIds :
        /\ run > 1
        /\ Terminal(i)
        /\ outcome[i].summarized
        /\ PriorText(i) # <<>>
        /\ <<PriorText(i), PriorText(i)>> \in EmptyDiffPairs

\* the four terminal states of a target
TerminalStates == {"no-change", "changed-notify", "changed-skip", "error"}

\* the targets are taken one at a time in list order: while the loop is at
\* page_idx, the targets before it are terminal and the ones after it untouched
InListOrder ==
    \A i \in PageIds :
        /\ outcome[i].state \in TerminalStates \cup {"pending"}
        /\ IF pc \in {"fetch", "compare"}
           THEN /\ i < page_idx => Terminal(i)
                /\ i >= page_idx => /\ ~Terminal(i)
                                    /\ (fetched[i].status # "pending"
                                        => i = page_idx /\ pc = "compare")
           ELSE /\ Terminal(i)
                /\ fetched[i].status # "pending"

\* within a run a target that is terminal is not processed again
ProcessedOnce ==
    \A i \in PageIds :
        (Terminal(i) /\ run' = run)
        => (outcome'[i] = outcome[i] /\ fetched'[i] = fetched[i])

\* C16: every run terminates, whatever the fetches and the sends come to,
\* having processed the targets one at a time in list order, each exactly
\* once, and with each target in exactly one of the four terminal states.
C16_RunTerminatesInOrder ==
    /\ []InListOrder
    /\ [][ProcessedOnce]_vars
    /\ \A r \in 1..MaxRuns :
          (run = r /\ pc # "done") ~> (run = r /\ pc = "done" /\ AllTerminal)

\* a second run is over after a failed fetch, a relevant change and a send
\* that failed
C16_Witness ==
    /\ run = MaxRuns
    /\ pc = "done"
    /\ \E i \in PageIds : outcome[i].state = "error"
    /\ \E i \in PageIds : outcome[i].state = "changed-notify"
    /\ \E i \in PageIds : outcome[i].state \in {"no-change", "changed-skip"}
    /\ SomeSendFailed

\* a step changes the snapshot of a target only when it is the compare-and-
\* persist step of that very target
OwnSnapshotOnly ==
    \A i \in PageIds :
        Snapshot(i)' # Snapshot(i) => (pc = "compare" /\ page_idx = i)

\* after a run each snapshot is the text fetched for its target, or what it
\* was before the run when the fetch failed
SnapshotsAfterRun ==
    pc = "done"
    => \A i \in PageIds :
          Snapshot(i) = IF FetchOk(i)
                        THEN [exists |-> TRUE, text |-> fetched[i].text]
                        ELSE PriorFile(i)

\* C17: processing a target touches only that target's own snapshot: every
\* step leaves the snapshots of all other targets unchanged, and after a run
\* each snapshot is either its pre-run value (fetch failed) or the text
\* fetched for its own target.
C17_SnapshotsOwnedByTarget ==
    [][OwnSnapshotOnly]_vars /\ []SnapshotsAfterRun

\* a later run has rewritten the snapshot of one target with a new text and
\* left the different snapshot of a target whose fetch failed as it was
C17_Witness ==
    /\ run > 1
    /\ pc = "done"
    /\ \E i, j \in PageIds :
          /\ FetchOk(i)
          /\ PriorFile(i).exists
          /\ PriorFile(i).text # fetched[i].text
          /\ Snapshot(i).text = fetched[i].text
          /\ fetched[j].status = "error"
          /\ PriorFile(j).exists
          /\ Snapshot(j) = PriorFile(j)
          /\ Snapshot(j) # Snapshot(i)

\* the ChangeEvents the run before collected for page i
PrevEventsOf(i) ==
    { n \in 1..Len(prev_changes) :
        prev_changes[n].page_name = PAGES[i].page_name }

\* C18: the snapshot is persisted before any notification is attempted and is
\* never rolled back, so a relevant change is not notified again, whatever
\* became of its notification: in the next run, if the page text is still the
\* same, the target ends in no-change and no ChangeEvent is produced for it.
C18_NoRenotification ==
    /\ pc \in {"notify_changes", "notify_errors", "exit", "done"}
       => \A i \in PageIds :
             FetchOk(i) => Snapshot(i) = [exists |-> TRUE,
                                          text |-> fetched[i].text]
    /\ \A i \in PageIds :
          (/\ run > 1
           /\ PrevEventsOf(i) # {}
           /\ Terminal(i)
           /\ FetchOk(i)
           /\ fetched[i].text = prev_fetched[i].text)
          => (outcome[i].state = "no-change" /\ ~HasEvent(i))

\* no credentials, so the notification of the change of the run before was
\* not delivered; the page is unchanged in this run, which ends without a
\* ChangeEvent for it
C18_Witness ==
    \E i \in PageIds :
        /\ KEY = ""
        /\ run > 1
        /\ pc = "done"
        /\ PrevEventsOf(i) # {}
        /\ FetchOk(i)
        /\ fetched[i].text = prev_fetched[i].text
        /\ outcome[i].state = "no-change"
        /\ ~HasEvent(i)

\* the summaries carried by the ChangeEvents of this run and of the run before
EventSummaries ==
    { changes_detected[n].diff : n \in 1..Len(changes_detected) }
    \cup { prev_changes[n].diff : n \in 1..Len(prev_changes) }

\* the summaries generate_diff gives in a run that show an addition line
SummariesWithAdditions ==
    UNION { IF ShownAdditions(d[3][1]) # {} THEN { d[3][1] } ELSE {} :
              d \in DiffsOfTexts }

\* C19: every ChangeEvent collected in any run carries a summary with at least
\* one addition line; the messages "no new information detected" and "no clear
\* diff available" never appear in a ChangeEvent.
C19_EventsCarryAdditions ==
    \A diff_text \in EventSummaries :
        /\ diff_text \in SummariesWithAdditions
        /\ diff_text \notin {NoNewInformationMessage, NoClearDiffMessage}

\* a run whose ChangeEvents are one for a first text and one for additions to
\* a snapshot, beside a change that only removed lines and gave no event
C19_Witness ==
    /\ pc = "done"
    /\ \E i, j, k \in PageIds :
          /\ HasEvent(i) /\ PriorText(i) = <<>>
          /\ HasEvent(j) /\ PriorText(j) # <<>>
          /\ outcome[k].state = "changed-skip"
          /\ PriorText(k) # <<>>
          /\ <<PriorText(k), fetched[k].text,
               <<NoNewInformationMessage, FALSE>>>> \in DiffsOfTexts

====
